---- MODULE Spec2Model ----
(***************************************************************************)
(* Model of the stock comparator page (src/app/comparator/page.tsx):       *)
(* the Timeframe Resolver (getTimeframeStartDate), the Price Series        *)
(* Normalizer (processData), the Data Fetch Orchestrator                   *)
(* (fetchComparisonData) and the Debounced Trigger (the debounce effect).  *)
(*                                                                         *)
(* Representation of JavaScript values:                                    *)
(*   - a date string "YYYY-MM-DD" is the triple <<y, m, d>>;               *)
(*   - a Date is [day |-> days since 1970-01-01, ms |-> ms within the day] *)
(*     (getTime() is day * MsPerDay + ms; the pair is compared             *)
(*     lexicographically so that no 32-bit product is needed); local time  *)
(*     is taken to be UTC;                                                 *)
(*   - a number that results from a division is the exact rational         *)
(*     [num, den] in lowest terms (IEEE rounding is not modelled);         *)
(*   - a string built by concatenation is the sequence of its pieces, the  *)
(*     empty string being <<>>;                                            *)
(*   - null is the record Null.                                            *)
(***************************************************************************)
EXTENDS Integers, Sequences, FiniteSets, TLC

VARIABLES
    \* --- React state of StockComparatorPage (page.tsx:52-57, 65)
    ticker1, ticker2, timeframe, comparisonData, loading, error,
    debounceTimerRef,
    \* --- the environment of the page: pending timeouts and running calls
    timers, inflight,
    \* --- history: input changes so far, Orchestrator calls since the last
    \*     input change, input changes in a row that each came while the
    \*     timer of the one before was pending, and what the last step did
    changes, invocations, burst, last,
    \* --- one call of getTimeframeStartDate (SpecResolver)
    rEndDate, rOption, rResult,
    \* --- one call of processData (SpecNormalizer)
    nStockData, nStartDate, nResult,
    \* --- one request to GET /api/stock (SpecRoute): which of the two copies
    \*     of the handler serves it, the symbol parameter, what the provider's
    \*     chart() and quote() do, and the response
    gHandler, gSymbol, gChart, gQuote, gResponse

uiVars == <<ticker1, ticker2, timeframe, comparisonData, loading, error,
            debounceTimerRef, timers, inflight, changes, invocations, burst,
            last>>
resolverVars == <<rEndDate, rOption, rResult>>
normalizerVars == <<nStockData, nStartDate, nResult>>
routeVars == <<gHandler, gSymbol, gChart, gQuote, gResponse>>
vars == <<uiVars, resolverVars, normalizerVars, routeVars>>

Null == [null |-> TRUE]

----------------------------------------------------------------------------
(* Bounds of the model *)

\* longest price series handed to processData
MaxLen == 3
\* largest price of a point (prices run from -1 to MaxPrice)
MaxPrice == 3
\* input changes (ticker edits, timeframe clicks) in one run of the page
MaxChanges == 3

----------------------------------------------------------------------------
(* JavaScript Date arithmetic *)

MsPerDay == 24 * 60 * 60 * 1000
SecondsPerDay == 24 * 60 * 60

\* days since 1970-01-01 of the civil date y-m-d (proleptic Gregorian)
DaysFromCivil(y, m, d) ==
    LET yy  == IF m <= 2 THEN y - 1 ELSE y
        era == yy \div 400
        yoe == yy - era * 400
        mp  == IF m > 2 THEN m - 3 ELSE m + 9
        doy == (153 * mp + 2) \div 5 + d - 1
        doe == yoe * 365 + yoe \div 4 - yoe \div 100 + doy
    IN  era * 146097 + doe - 719468

\* the civil date <<y, m, d>> of a day number
CivilFromDays(z) ==
    LET zz  == z + 719468
        era == zz \div 146097
        doe == zz - era * 146097
        yoe == (doe - doe \div 1460 + doe \div 36524 - doe \div 146096) \div 365
        doy == doe - (365 * yoe + yoe \div 4 - yoe \div 100)
        mp  == (5 * doy + 2) \div 153
        d   == doy - (153 * mp + 2) \div 5 + 1
        m   == IF mp < 10 THEN mp + 3 ELSE mp - 9
        y   == yoe + era * 400
    IN  <<IF m <= 2 THEN y + 1 ELSE y, m, d>>

\* new Date("YYYY-MM-DD"): midnight UTC of that day
NewDate(dateString) ==
    [day |-> DaysFromCivil(dateString[1], dateString[2], dateString[3]), ms |-> 0]

\* a.getTime() >= b.getTime()
TimeGeq(a, b) == a.day > b.day \/ (a.day = b.day /\ a.ms >= b.ms)

\* a.getTime() - b.getTime() < 0
TimeLess(a, b) == ~TimeGeq(a, b)

\* result.setFullYear(year): same month, day and time of day in that year; a
\* day the month does not have runs over into the next month
SetFullYear(date, year) ==
    LET c == CivilFromDays(date.day)
    IN  [day |-> DaysFromCivil(year, c[2], 1) + (c[3] - 1), ms |-> date.ms]

GetFullYear(date) == CivilFromDays(date.day)[1]

\* result.setDate(result.getDate() + delta)
AddDays(date, delta) == [day |-> date.day + delta, ms |-> date.ms]

----------------------------------------------------------------------------
(* Timeframe Resolver: getTimeframeStartDate (page.tsx:74-96) *)

ComparisonTimeframes == {"1y", "3y", "5y", "all"}

\* new Date(0): the start of the Unix epoch
EpochDate == [day |-> 0, ms |-> 0]

\* the sentinel a wrong "all" branch would return: the end date itself
AllBranchReturnsEndDate(endDate) == endDate

\* case "all": return new Date(0)
AllBranch(endDate) == EpochDate

\* the years the switch subtracts for an option other than "all"
YearsBack(option) ==
    CASE option = "1y" -> 1
      [] option = "3y" -> 3
      [] option = "5y" -> 5
      [] OTHER -> 1

\* a resolver without the step back of one day
WithoutLookbackDay(endDate, option) ==
    IF option = "all"
    THEN AllBranch(endDate)
    ELSE SetFullYear(endDate, GetFullYear(endDate) - YearsBack(option))

getTimeframeStartDate(endDate, option) ==
    IF option = "all"
    THEN AllBranch(endDate)
    ELSE AddDays(SetFullYear(endDate, GetFullYear(endDate) - YearsBack(option)), -1)

----------------------------------------------------------------------------
(* Exact rational arithmetic for 100 * (price / startPrice) *)

Abs(n) == IF n < 0 THEN -n ELSE n

RECURSIVE GCD(_, _)
GCD(a, b) == IF b = 0 THEN a ELSE GCD(b, a % b)

\* n / d in lowest terms, d > 0
Rat(n, d) == LET g == GCD(Abs(n), d) IN [num |-> n \div g, den |-> d \div g]

\* k * r for an integer k
RatTimes(k, r) == Rat(k * r.num, r.den)

----------------------------------------------------------------------------
(* Price Series Normalizer: processData (page.tsx:99-131) *)

\* dateToUTCTimestamp (page.tsx:46-49): Date.UTC(year, month - 1, day) / 1000
dateToUTCTimestamp(dateString) ==
    DaysFromCivil(dateString[1], dateString[2], dateString[3]) * SecondsPerDay

\* insertion of point p into a series sorted by date, after the points that do
\* not compare greater (Array.prototype.sort is stable)
RECURSIVE InsertByDate(_, _)
InsertByDate(sorted, p) ==
    IF sorted = <<>> THEN <<p>>
    ELSE IF TimeLess(NewDate(p.date), NewDate(Head(sorted).date))
         THEN <<p>> \o sorted
         ELSE <<Head(sorted)>> \o InsertByDate(Tail(sorted), p)

RECURSIVE SortByDateFrom(_, _)
SortByDateFrom(sorted, rest) ==
    IF rest = <<>> THEN sorted
    ELSE SortByDateFrom(InsertByDate(sorted, Head(rest)), Tail(rest))

\* a sort that is left out: the series is used in the order it came in
Unsorted(prices) == prices

\* [...prices].sort((a, b) => new Date(a.date).getTime() - new Date(b.date).getTime())
SortByDate(prices) == SortByDateFrom(<<>>, prices)

\* a scan that takes only the points strictly after the start date
FindIndexStrictlyAfter(prices, startDate) ==
    LET hits == {i \in DOMAIN prices : ~TimeGeq(startDate, NewDate(prices[i].date))}
    IN  IF hits = {} THEN -1
        ELSE (CHOOSE i \in hits : \A j \in hits : i <= j) - 1

\* prices.findIndex(p => new Date(p.date).getTime() >= startDate.getTime()),
\* 0-based, -1 when no point qualifies
FindStartIndex(prices, startDate) ==
    LET hits == {i \in DOMAIN prices : TimeGeq(NewDate(prices[i].date), startDate)}
    IN  IF hits = {} THEN -1
        ELSE (CHOOSE i \in hits : \A j \in hits : i <= j) - 1

\* prices.slice(startIndex), startIndex 0-based
SliceFrom(prices, startIndex) == SubSeq(prices, startIndex + 1, Len(prices))

\* a guard that only rejects a zero base price
ZeroPriceOnly(startPrice) == startPrice = 0

\* if (startPrice <= 0) return null
BadStartPrice(startPrice) == startPrice <= 0

\* a value computed against the wrong base: the plain price times 100
UnscaledValue(price, startPrice) == Rat(100 * price, 1)

\* 100 * (point.price / startPrice)
CurrentValue(price, startPrice) == RatTimes(100, Rat(price, startPrice))

\* stockData is the one-element array [data]; data has a prices field or not
processData(stockData, startDate) ==
    IF stockData = <<>> \/ "prices" \notin DOMAIN stockData[1]
       \/ Len(stockData[1].prices) = 0
    THEN Null
    ELSE
      LET prices == SortByDate(stockData[1].prices)
          startIndex == FindStartIndex(prices, startDate)
      IN  IF startIndex = -1 \/ startIndex >= Len(prices) THEN Null
          ELSE
            LET startPrice == prices[startIndex + 1].price
                relevantPrices == SliceFrom(prices, startIndex)
                performanceSeries ==
                    [i \in DOMAIN relevantPrices |->
                        [time  |-> dateToUTCTimestamp(relevantPrices[i].date),
                         value |-> CurrentValue(relevantPrices[i].price, startPrice)]]
                finalValue ==
                    IF Len(performanceSeries) > 0
                    THEN performanceSeries[Len(performanceSeries)].value
                    ELSE Rat(100, 1)
            IN  IF BadStartPrice(startPrice) THEN Null
                ELSE [series |-> performanceSeries, finalValue |-> finalValue]

----------------------------------------------------------------------------
(* Initial state of the page: the useState and useRef initial values
   (page.tsx:52-57, 65) *)

NoArgs == <<>>

UIInit ==
    /\ ticker1 = ""
    /\ ticker2 = ""
    /\ timeframe = "1y"
    /\ comparisonData = Null
    /\ loading = FALSE
    /\ error = <<>>
    /\ debounceTimerRef = 0
    /\ timers = {}
    /\ inflight = <<>>
    /\ changes = 0
    /\ invocations = 0
    /\ burst = 0
    /\ last = [kind |-> "init", cause |-> "", args |-> NoArgs, ok |-> <<>>, absent |-> <<>>]

----------------------------------------------------------------------------
(* The page: inputs, the debounce effect and fetchComparisonData *)

\* what the user can put into a ticker field (onChange upper-cases it)
TickerInputs == {"", "aapl", "MSFT"}

\* e.target.value.toUpperCase(), ticker1.toUpperCase()
ToUpperCase(str) == CASE str = "aapl" -> "AAPL" [] OTHER -> str

\* the timeframe buttons pressed in the runs explored: "3y" and "5y" differ
\* from "1y" only by the years subtracted
TimeframeButtons == {"1y", "all"}

\* new Date() inside fetchComparisonData: the clock of the run
NowDate == [day |-> DaysFromCivil(2024, 6, 15), ms |-> MsPerDay \div 2]

\* the prices of the bodies /api/stock answers with (status 200)
BodyPrices ==
    { <<[date |-> <<2023, 6, 15>>, price |-> 2], [date |-> <<2024, 6, 14>>, price |-> 3]>>,
      <<[date |-> <<2023, 6, 14>>, price |-> 2]>>,
      <<>> }

\* a body that response.json() cannot parse
BadJson == [badJson |-> TRUE]

\* the message of the error a rejected fetch or json() carries; <<>> is an
\* error without a message
RejectMessages == {<<"Failed to fetch">>, <<>>}
SyntaxErrorMessage == <<"Unexpected token < in JSON">>

NoData == [none |-> TRUE]

\* a clearTimeout that is left out
KeepTimeout(pending, ref) == pending

\* clearTimeout(debounceTimerRef.current): a null, fired or cleared id is a no-op
ClearTimeout(pending, ref) == {t \in pending : t.id # ref}

Event(kind, cause, args, ok, absent) ==
    [kind |-> kind, cause |-> cause, args |-> args, ok |-> ok, absent |-> absent]

\* the body of the debounce effect (page.tsx:194-220) on the values of the
\* render that follows a state change; the cleanup of the previous effect
\* (215-219) and lines 199-201 clear the same timer
DebounceEffect(t1, t2, tf) ==
    /\ comparisonData' = Null
    /\ error' = <<>>
    /\ IF t1 # "" /\ t2 # ""
       THEN /\ loading' = TRUE
            /\ timers' = ClearTimeout(timers, debounceTimerRef)
                            \cup {[id |-> changes + 1, args |-> <<t1, t2, tf>>]}
            /\ debounceTimerRef' = changes + 1
       ELSE /\ loading' = FALSE
            /\ timers' = ClearTimeout(timers, debounceTimerRef)
            /\ debounceTimerRef' = debounceTimerRef
    /\ changes' = changes + 1
    /\ invocations' = 0
    /\ burst' = IF t1 = "" \/ t2 = "" THEN 0
                ELSE IF \E t \in timers : t.id = debounceTimerRef THEN burst + 1
                ELSE 1
    /\ last' = Event("change", "", <<t1, t2, tf>>, <<>>, <<>>)
    /\ UNCHANGED <<inflight, resolverVars, normalizerVars, routeVars>>

\* onChange of the first ticker field (page.tsx:326); setting a state to the
\* value it has does not render again
ChangeTicker1(v) ==
    /\ changes < MaxChanges
    /\ ToUpperCase(v) # ticker1
    /\ ticker1' = ToUpperCase(v)
    /\ UNCHANGED <<ticker2, timeframe>>
    /\ DebounceEffect(ToUpperCase(v), ticker2, timeframe)

\* onChange of the second ticker field (page.tsx:335)
ChangeTicker2(v) ==
    /\ changes < MaxChanges
    /\ ToUpperCase(v) # ticker2
    /\ ticker2' = ToUpperCase(v)
    /\ UNCHANGED <<ticker1, timeframe>>
    /\ DebounceEffect(ticker1, ToUpperCase(v), timeframe)

\* onClick of a timeframe button (page.tsx:343-346)
ChangeTimeframe(tf) ==
    /\ changes < MaxChanges
    /\ tf # timeframe
    /\ timeframe' = tf
    /\ UNCHANGED <<ticker1, ticker2>>
    /\ DebounceEffect(ticker1, ticker2, tf)

\* the timeout callback (page.tsx:206-208): fetchComparisonData of the render
\* that set the timer, up to its first await (page.tsx:134-153)
TimerFire(t) ==
    /\ t \in timers
    /\ timers' = timers \ {t}
    /\ IF t.args[1] = "" \/ t.args[2] = ""
       THEN /\ comparisonData' = Null
            /\ error' = <<>>
            /\ UNCHANGED <<loading, inflight>>
       ELSE /\ loading' = TRUE
            /\ error' = <<>>
            /\ inflight' = Append(inflight,
                   [args |-> t.args,
                    startDate |-> getTimeframeStartDate(NowDate, t.args[3]),
                    pc |-> "fetch",
                    resp |-> <<"pending", "pending">>,
                    data1 |-> NoData])
            /\ UNCHANGED comparisonData
    /\ invocations' = invocations + 1
    /\ last' = Event("invoke", "", t.args, <<>>, <<>>)
    /\ UNCHANGED <<ticker1, ticker2, timeframe, debounceTimerRef, changes, burst,
                   resolverVars, normalizerVars, routeVars>>

Remove(seq, i) == SubSeq(seq, 1, i - 1) \o SubSeq(seq, i + 1, Len(seq))

\* an error message without a fallback
MessageAsIs(message) == message

\* err.message || "An unknown error occurred."
MessageOrUnknown(message) ==
    IF message # <<>> THEN message ELSE <<"An unknown error occurred.">>

\* a catch block that leaves the displayed result in place
KeepComparisonData(shown) == shown

\* setComparisonData(null) in the catch block
ClearedComparisonData(shown) == Null

\* catch and finally of invocation i (page.tsx:184-190)
CatchFinally(i, cause, message, ok, absent) ==
    /\ error' = MessageOrUnknown(message)
    /\ comparisonData' = ClearedComparisonData(comparisonData)
    /\ loading' = FALSE
    /\ inflight' = Remove(inflight, i)
    /\ last' = Event("failure", cause, inflight[i].args, ok, absent)

\* a message that names both tickers whenever a fetch failed
FetchMessageNamingBoth(t1, t2, ok1, ok2) ==
    <<"Failed to fetch stock data.">>
        \o <<" Check ticker ", t1, ".">> \o <<" Check ticker ", t2, ".">>

\* the message of page.tsx:156-158
FetchErrorMessage(t1, t2, ok1, ok2) ==
    <<"Failed to fetch stock data.">>
        \o (IF ~ok1 THEN <<" Check ticker ", t1, ".">> ELSE <<>>)
        \o (IF ~ok2 THEN <<" Check ticker ", t2, ".">> ELSE <<>>)

\* a message that names only the first ticker
ProcessMessageNamingFirst(t1, t2, absent1, absent2) ==
    <<"Could not process data for comparison.">>
        \o <<" Check data availability for ", t1, ".">>

\* the message of page.tsx:169-171
ProcessErrorMessage(t1, t2, absent1, absent2) ==
    <<"Could not process data for comparison.">>
        \o (IF absent1 THEN <<" Check data availability for ", t1, ".">> ELSE <<>>)
        \o (IF absent2 THEN <<" Check data availability for ", t2, ".">> ELSE <<>>)

\* fetch k of invocation i is rejected: Promise.all rejects at once and the
\* catch block runs (page.tsx:150-153, 184-190)
FetchReject(i, k, message) ==
    /\ i \in DOMAIN inflight
    /\ inflight[i].pc = "fetch"
    /\ inflight[i].resp[k] = "pending"
    /\ CatchFinally(i, "reject", message,
                    [inflight[i].resp EXCEPT ![k] = "rejected"], <<>>)
    /\ UNCHANGED <<ticker1, ticker2, timeframe, debounceTimerRef, timers,
                   changes, invocations, burst, resolverVars, normalizerVars, routeVars>>

\* fetch k of invocation i is answered, status 2xx (ok) or not; with both
\* answers in, the function runs on to the await of response1.json()
\* (page.tsx:150-162)
FetchRespond(i, k, ok) ==
    /\ i \in DOMAIN inflight
    /\ inflight[i].pc = "fetch"
    /\ inflight[i].resp[k] = "pending"
    /\ LET inv  == inflight[i]
           resp == [inv.resp EXCEPT ![k] = IF ok THEN "ok" ELSE "notok"]
           ok1  == resp[1] = "ok"
           ok2  == resp[2] = "ok"
       IN  IF "pending" \in {resp[1], resp[2]}
           THEN /\ inflight' = [inflight EXCEPT ![i].resp = resp]
                /\ last' = Event("response", "", NoArgs, <<>>, <<>>)
                /\ UNCHANGED <<comparisonData, loading, error>>
           ELSE IF ~ok1 \/ ~ok2
           THEN CatchFinally(i, "http",
                    FetchErrorMessage(inv.args[1], inv.args[2], ok1, ok2),
                    resp, <<>>)
           ELSE /\ inflight' = [inflight EXCEPT ![i].resp = resp, ![i].pc = "json1"]
                /\ last' = Event("response", "", NoArgs, <<>>, <<>>)
                /\ UNCHANGED <<comparisonData, loading, error>>
    /\ UNCHANGED <<ticker1, ticker2, timeframe, debounceTimerRef, timers,
                   changes, invocations, burst, resolverVars, normalizerVars, routeVars>>

\* response1.json() settles (page.tsx:162): body is the prices of the parsed
\* object, or BadJson when parsing throws
Json1Settle(i, body) ==
    /\ i \in DOMAIN inflight
    /\ inflight[i].pc = "json1"
    /\ IF body = BadJson
       THEN CatchFinally(i, "json", SyntaxErrorMessage, <<"ok", "ok">>, <<>>)
       ELSE /\ inflight' = [inflight EXCEPT
                   ![i].pc = "json2",
                   ![i].data1 = [symbol |-> ToUpperCase(inflight[i].args[1]),
                                 prices |-> body.prices]]
            /\ last' = Event("response", "", NoArgs, <<>>, <<>>)
            /\ UNCHANGED <<comparisonData, loading, error>>
    /\ UNCHANGED <<ticker1, ticker2, timeframe, debounceTimerRef, timers,
                   changes, invocations, burst, resolverVars, normalizerVars, routeVars>>

\* response2.json() settles and the function runs to its end
\* (page.tsx:163-190)
Json2Settle(i, body) ==
    /\ i \in DOMAIN inflight
    /\ inflight[i].pc = "json2"
    /\ LET inv == inflight[i]
           data2 == [symbol |-> ToUpperCase(inv.args[2]), prices |-> body.prices]
           processed1 == processData(<<inv.data1>>, inv.startDate)
           processed2 == processData(<<data2>>, inv.startDate)
       IN  IF body = BadJson
           THEN CatchFinally(i, "json", SyntaxErrorMessage, <<"ok", "ok">>, <<>>)
           ELSE IF processed1 = Null \/ processed2 = Null
           THEN CatchFinally(i, "process",
                    ProcessErrorMessage(inv.args[1], inv.args[2],
                                        processed1 = Null, processed2 = Null),
                    <<"ok", "ok">>, <<processed1 = Null, processed2 = Null>>)
           ELSE /\ comparisonData' =
                       [ticker1 |-> ToUpperCase(inv.args[1]),
                        ticker2 |-> ToUpperCase(inv.args[2]),
                        series1 |-> processed1.series,
                        series2 |-> processed2.series,
                        finalValue1 |-> processed1.finalValue,
                        finalValue2 |-> processed2.finalValue]
                /\ loading' = FALSE
                /\ inflight' = Remove(inflight, i)
                /\ last' = Event("success", "", inv.args, <<"ok", "ok">>, <<FALSE, FALSE>>)
                /\ UNCHANGED error
    /\ UNCHANGED <<ticker1, ticker2, timeframe, debounceTimerRef, timers,
                   changes, invocations, burst, resolverVars, normalizerVars, routeVars>>

JsonBodies == {[prices |-> p] : p \in BodyPrices} \cup {BadJson}

Next ==
    \/ \E v \in TickerInputs : ChangeTicker1(v)
    \/ \E v \in TickerInputs : ChangeTicker2(v)
    \/ \E tf \in TimeframeButtons : ChangeTimeframe(tf)
    \/ \E t \in timers : TimerFire(t)
    \/ \E i \in DOMAIN inflight, k \in {1, 2}, m \in RejectMessages : FetchReject(i, k, m)
    \/ \E i \in DOMAIN inflight, k \in {1, 2}, ok \in BOOLEAN : FetchRespond(i, k, ok)
    \/ \E i \in DOMAIN inflight, body \in JsonBodies : Json1Settle(i, body)
    \/ \E i \in DOMAIN inflight, body \in JsonBodies : Json2Settle(i, body)

----------------------------------------------------------------------------
(* SpecResolver: one call of getTimeframeStartDate on an end date and an
   option drawn from bounded sets *)

NotCalled == [called |-> FALSE]

\* years of the end dates tried
EndYears == 2020..2025
\* <<month, day>> of the end dates tried
EndMonthDays == {<<1, 1>>, <<2, 28>>, <<2, 29>>, <<3, 1>>, <<6, 15>>, <<12, 31>>}

IsLeapYear(y) == (y % 4 = 0 /\ y % 100 # 0) \/ y % 400 = 0

EndDateInputs ==
    {[day |-> DaysFromCivil(y, md[1], md[2]), ms |-> t] :
        <<y, md, t>> \in
            {x \in EndYears \X EndMonthDays \X {0, 1, MsPerDay - 1} :
                x[2] = <<2, 29>> => IsLeapYear(x[1])}}

\* the four options of the type and one token outside it
OptionInputs == ComparisonTimeframes \cup {"2y"}

ResolverInit ==
    /\ rEndDate \in EndDateInputs
    /\ rOption \in OptionInputs
    /\ rResult = NotCalled

CallGetTimeframeStartDate ==
    /\ rResult = NotCalled
    /\ rResult' = getTimeframeStartDate(rEndDate, rOption)
    /\ UNCHANGED <<rEndDate, rOption>>

----------------------------------------------------------------------------
(* SpecNormalizer: one call of processData on a series and a start date drawn
   from bounded sets *)

\* the dates of the price points tried
PointDates == {<<1962, 1, 2>>, <<2023, 6, 14>>, <<2023, 6, 15>>, <<2024, 6, 14>>}

PricePoints == [date : PointDates, price : -1..MaxPrice]

\* series of at most MaxLen points, in any order, no date twice (section 3 of
\* the specification: a PriceSeries holds no duplicate dates)
PriceSeriesInputs ==
    {s \in UNION {[1..n -> PricePoints] : n \in 0..MaxLen} :
        \A i, j \in DOMAIN s : i # j => s[i].date # s[j].date}

StockDataInputs ==
    {<<>>, <<[symbol |-> "AAPL"]>>}
    \cup {<<[symbol |-> "AAPL", prices |-> s]>> : s \in PriceSeriesInputs}

StartDateInputs ==
    {EpochDate}
    \cup {[day |-> NewDate(d).day, ms |-> t] : d \in PointDates, t \in {0, 1}}

NormalizerInit ==
    /\ nStockData \in StockDataInputs
    /\ nStartDate \in StartDateInputs
    /\ nResult = NotCalled

CallProcessData ==
    /\ nResult = NotCalled
    /\ nResult' = processData(nStockData, nStartDate)
    /\ UNCHANGED <<nStockData, nStartDate>>

----------------------------------------------------------------------------
(* GET /api/stock: the route handler, of which the repository holds two
   copies that differ in the catch block (unnamed/part_000:10-121 and
   app/page.tsx:29-166).  A number of the provider is held in thousandths; a
   field that is null or undefined is Null. *)

\* longest history chart() returns
MaxBars == 2

Num(n) == [num |-> n]

FirstBarDay == DaysFromCivil(2024, 6, 13)

\* the daily bars the provider may return for the i-th day: adjclose and close
\* there or not, and open, high, low all there or one of them missing
BarsOfDay(i) ==
    {[date |-> [day |-> FirstBarDay + i, ms |-> 0],
      adjclose |-> a, close |-> c, open |-> ohl[1], high |-> ohl[2], low |-> ohl[3]] :
        a \in {Null, Num(1234)}, c \in {Null, Num(1500)},
        ohl \in {<<Num(1495), Num(1505), Num(1000)>>,
                 <<Null, Num(1505), Num(1000)>>,
                 <<Num(1495), Null, Num(1000)>>,
                 <<Num(1495), Num(1505), Null>>}}

Histories ==
    {h \in UNION {[1..n -> UNION {BarsOfDay(i) : i \in 1..MaxBars}] : n \in 0..MaxBars} :
        \A i \in DOMAIN h : h[i] \in BarsOfDay(i)}

\* what the provider can throw: an Error instance, another object or a string;
\* message <<>> and code "" stand for a property that is not there
ThrownErrors ==
    { [kind |-> "Error",  message |-> <<"No data found", ", symbol may be delisted">>, code |-> ""],
      [kind |-> "Error",  message |-> <<"network timeout">>, code |-> ""],
      [kind |-> "Error",  message |-> <<"HTTP 404">>, code |-> "Not Found"],
      [kind |-> "object", message |-> <<>>, code |-> "Not Found"],
      [kind |-> "object", message |-> <<"timed out">>, code |-> "ETIMEDOUT"],
      [kind |-> "object", message |-> <<"No data found">>, code |-> ""],
      [kind |-> "string", message |-> <<>>, code |-> "", text |-> <<"boom">>] }

ChartOutcomes ==
    {[throws |-> FALSE, result |-> [quotes |-> h]] : h \in Histories}
    \cup {[throws |-> FALSE, result |-> [meta |-> "no quotes"]]}
    \cup {[throws |-> TRUE, error |-> e] : e \in ThrownErrors}

QuoteOutcomes ==
    { [throws |-> FALSE, quote |-> [longName |-> "Apple Inc.", shortName |-> "Apple"]],
      [throws |-> FALSE, quote |-> [shortName |-> "Apple"]],
      [throws |-> FALSE, quote |-> Null],
      [throws |-> TRUE, error |-> [kind |-> "Error", message |-> <<"network timeout">>, code |-> ""]] }

\* searchParams.get("symbol"): "" stands for no parameter or an empty one
SymbolParams == {"", "aapl", "MSFT"}

\* error.message?.includes("No data found")
MessageIncludesNoData(e) == \E k \in DOMAIN e.message : e.message[k] = "No data found"

\* Number.parseFloat(value.toFixed(2)): thousandths rounded to hundredths
ToFixed2(value) == (value.num + 5) \div 10

\* a test without the fallback from adjclose to close
NeedsAdjclose(bar) ==
    /\ bar.adjclose # Null
    /\ bar.open # Null
    /\ bar.high # Null
    /\ bar.low # Null
    /\ bar.close # Null

\* the null checks of the map callback (part_000:73-79): all five values needed
IsCompleteBar(bar) ==
    /\ (IF bar.adjclose # Null THEN bar.adjclose ELSE bar.close) # Null
    /\ bar.open # Null
    /\ bar.high # Null
    /\ bar.low # Null
    /\ bar.close # Null

\* the object the map callback returns for a complete bar (part_000:81-90)
FormatBar(bar) ==
    [date  |-> CivilFromDays(bar.date.day),
     price |-> ToFixed2(IF bar.adjclose # Null THEN bar.adjclose ELSE bar.close),
     open  |-> ToFixed2(bar.open),
     high  |-> ToFixed2(bar.high),
     low   |-> ToFixed2(bar.low),
     close |-> ToFixed2(bar.close)]

\* history.map(...).filter(data => data !== null)
RECURSIVE FormatPrices(_)
FormatPrices(history) ==
    IF history = <<>> THEN <<>>
    ELSE (IF IsCompleteBar(Head(history)) THEN <<FormatBar(Head(history))>> ELSE <<>>)
            \o FormatPrices(Tail(history))

\* quote?.longName || quote?.shortName || `${symbol} Inc.`
CompanyName(quote, symbol) ==
    IF quote # Null /\ "longName" \in DOMAIN quote THEN <<quote.longName>>
    ELSE IF quote # Null /\ "shortName" \in DOMAIN quote THEN <<quote.shortName>>
    ELSE <<symbol, " Inc.">>

NotFoundMessage(symbol) == <<"Stock symbol ", symbol, " not found or no data available">>

Response(status, body) == [status |-> status, body |-> body]

\* the catch block of unnamed/part_000:110-120
CatchPart000(e, symbol) ==
    IF MessageIncludesNoData(e) \/ e.code = "Not Found"
    THEN Response(404, [error |-> NotFoundMessage(symbol)])
    ELSE Response(500, [error |-> <<"Failed to fetch stock data">>])

\* the catch block of app/page.tsx:129-165
CatchPage(e, symbol) ==
    IF e.kind = "Error"
    THEN IF MessageIncludesNoData(e)
         THEN Response(404, [error |-> NotFoundMessage(symbol)])
         ELSE Response(500, [error |-> e.message])
    ELSE IF e.kind = "object" /\ e.code # ""
    THEN IF e.code = "Not Found"
         THEN Response(404, [error |-> NotFoundMessage(symbol)])
         ELSE IF e.message # <<>>
         THEN Response(500, [error |-> e.message])
         ELSE Response(500, [error |-> <<"Failed to fetch stock data">>])
    ELSE IF e.kind = "string"
    THEN Response(500, [error |-> e.text])
    ELSE Response(500, [error |-> <<"Failed to fetch stock data">>])

CatchGET(handler, e, symbol) ==
    IF handler = "part_000" THEN CatchPart000(e, symbol) ELSE CatchPage(e, symbol)

\* GET (part_000:10-121, page.tsx:29-166)
GET(handler, symbolParam, chart, quote) ==
    LET symbol == ToUpperCase(symbolParam)
    IN  IF symbol = ""
        THEN Response(400, [error |-> <<"Stock symbol is required">>])
        ELSE IF chart.throws THEN CatchGET(handler, chart.error, symbol)
        ELSE IF quote.throws THEN CatchGET(handler, quote.error, symbol)
        ELSE
          LET history == IF "quotes" \in DOMAIN chart.result
                         THEN chart.result.quotes ELSE <<>>
          IN  Response(200, [symbol |-> symbol,
                             name   |-> CompanyName(quote.quote, symbol),
                             prices |-> FormatPrices(history)])

RouteInit ==
    /\ gHandler \in {"part_000", "page"}
    /\ gSymbol \in SymbolParams
    /\ gChart \in ChartOutcomes
    /\ gQuote \in QuoteOutcomes
    /\ gResponse = NotCalled

CallGET ==
    /\ gResponse = NotCalled
    /\ gResponse' = GET(gHandler, gSymbol, gChart, gQuote)
    /\ UNCHANGED <<gHandler, gSymbol, gChart, gQuote>>

\* the values the variables of one specification keep in the others
ResolverIdle ==
    /\ rEndDate = EpochDate
    /\ rOption = "1y"
    /\ rResult = NotCalled

NormalizerIdle ==
    /\ nStockData = <<>>
    /\ nStartDate = EpochDate
    /\ nResult = NotCalled

RouteIdle ==
    /\ gHandler = "part_000"
    /\ gSymbol = ""
    /\ gChart = [throws |-> FALSE, result |-> [quotes |-> <<>>]]
    /\ gQuote = [throws |-> FALSE, quote |-> Null]
    /\ gResponse = NotCalled

ResolverNext ==
    CallGetTimeframeStartDate /\ UNCHANGED <<uiVars, normalizerVars, routeVars>>

NormalizerNext ==
    CallProcessData /\ UNCHANGED <<uiVars, resolverVars, routeVars>>

RouteNext == CallGET /\ UNCHANGED <<uiVars, resolverVars, normalizerVars>>

Init == UIInit /\ ResolverIdle /\ NormalizerIdle /\ RouteIdle

Spec == Init /\ [][Next]_vars

InitResolver == UIInit /\ NormalizerIdle /\ RouteIdle /\ ResolverInit

SpecResolver == InitResolver /\ [][ResolverNext]_vars

InitNormalizer == UIInit /\ ResolverIdle /\ RouteIdle /\ NormalizerInit

SpecNormalizer == InitNormalizer /\ [][NormalizerNext]_vars

InitRoute == UIInit /\ ResolverIdle /\ NormalizerIdle /\ RouteInit

SpecRoute == InitRoute /\ [][RouteNext]_vars

\* calendar checks used while developing the model
CalendarSane ==
    /\ DaysFromCivil(1970, 1, 1) = 0
    /\ DaysFromCivil(1900, 1, 1) = -25567
    /\ DaysFromCivil(2024, 6, 15) = 19889
    /\ CivilFromDays(19889) = <<2024, 6, 15>>
    /\ CivilFromDays(-25567) = <<1900, 1, 1>>
    /\ CivilFromDays(getTimeframeStartDate(NewDate(<<2024, 6, 15>>), "1y").day) = <<2023, 6, 14>>
    /\ CivilFromDays(getTimeframeStartDate(NewDate(<<2024, 2, 29>>), "1y").day) = <<2023, 2, 28>>
    /\ CivilFromDays(getTimeframeStartDate(NewDate(<<2024, 1, 1>>), "3y").day) = <<2020, 12, 31>>
    /\ \A z \in -30000..30000 :
         LET c == CivilFromDays(z) IN DaysFromCivil(c[1], c[2], c[3]) = z

----------------------------------------------------------------------------
(* Claims about the Debounced Trigger and the Orchestrator, checked under
   Spec *)

CurrentInputs == <<ticker1, ticker2, timeframe>>

InputComplete == ticker1 # "" /\ ticker2 # ""

Settled == last.kind \in {"failure", "success"}

\* the tickers an error message names: the piece after each "Check ..." piece
NamedTickers(message) ==
    {message[j + 1] :
        j \in {k \in 1..(Len(message) - 1) :
                 message[k] \in {" Check ticker ", " Check data availability for "}}}

\* C1: in a burst of input changes with both tickers filled in, each change
\* arriving while the timer of the one before is pending, fetchComparisonData
\* is called exactly once, after the last change and with its values: never
\* twice between two changes, with the current inputs when it is called, and
\* once the timer is gone it has been called.
C1_DebounceOnce ==
    /\ invocations <= 1
    /\ Cardinality(timers) <= 1
    /\ last.kind = "invoke" => (invocations = 1 /\ last.args = CurrentInputs)
    /\ (InputComplete /\ timers = {}) => invocations = 1
    /\ (InputComplete /\ timers # {}) => invocations = 0

C1_Witness ==
    /\ last.kind = "invoke"
    /\ burst >= 2
    /\ invocations = 1
    /\ Len(inflight) = 1
    /\ inflight[1].args = CurrentInputs

\* C2: once a ticker is empty, whether the change came while a timer was
\* pending or while a call was in flight, the result of that call is ignored
\* when it settles: until the next input change comparisonData is null and
\* error is empty.
C2_IncompleteInputShowsNothing ==
    ~InputComplete => (comparisonData = Null /\ error = <<>>)

\* C3: a call superseded by a newer debounce cycle is disregarded when it
\* settles: what is recorded (comparisonData, error) never comes from a call
\* started for other input values than the current ones.
C3_SupersededCallDisregarded ==
    (Settled /\ InputComplete) => last.args = CurrentInputs

C5_ProcessFailureMessage ==
    (last.kind = "failure" /\ last.cause = "process") =>
        /\ comparisonData = Null
        /\ last.ok = <<"ok", "ok">>
        /\ TRUE \in {last.absent[1], last.absent[2]}
        /\ Head(error) = "Could not process data for comparison."
        /\ Head(error) # "Failed to fetch stock data."
        /\ " Check ticker " \notin {error[k] : k \in DOMAIN error}
        /\ NamedTickers(error) = {last.args[k] : k \in {j \in {1, 2} : last.absent[j]}}

C5_Witness ==
    /\ last.kind = "failure" /\ last.cause = "process"
    /\ last.absent = <<FALSE, TRUE>>
    /\ last.args[1] # last.args[2]
    /\ NamedTickers(error) = {last.args[2]}
    /\ comparisonData = Null

\* C6: every failure of a call (fetch, processing, unexpected) leaves
\* comparisonData null and a non-empty error in the state right after it.
C6_FailureClearsResult ==
    last.kind = "failure" => (comparisonData = Null /\ error # <<>>)

C6_Witness ==
    /\ last.kind = "failure"
    /\ last.cause = "reject"
    /\ Len(inflight) = 1
    /\ error = <<"An unknown error occurred.">>
    /\ comparisonData = Null

----------------------------------------------------------------------------
(* Claims about processData, checked under SpecNormalizer.  The expected
   result is described from the input series directly, without the sort,
   the scan and the slice of the code. *)

NCalled == nResult # NotCalled

\* the series handed in is there and not empty
NHasPrices ==
    /\ nStockData # <<>>
    /\ "prices" \in DOMAIN nStockData[1]
    /\ Len(nStockData[1].prices) > 0

NPrices == nStockData[1].prices

NDay(i) == DaysFromCivil(NPrices[i].date[1], NPrices[i].date[2], NPrices[i].date[3])

\* the points of the input whose date (midnight UTC) is at or after startDate
NQualifying ==
    {i \in DOMAIN NPrices :
        NDay(i) > nStartDate.day \/ (NDay(i) = nStartDate.day /\ nStartDate.ms = 0)}

\* the earliest of them
NFirst == CHOOSE i \in NQualifying : \A j \in NQualifying : NDay(i) <= NDay(j)

\* the place of input point i in the emitted series
NRank(i) == Cardinality({j \in NQualifying : NDay(j) < NDay(i)}) + 1

NInputUnsorted == \E i, j \in DOMAIN NPrices : i < j /\ NDay(i) > NDay(j)

Hundred == [num |-> 100, den |-> 1]

\* C7: for a non-empty series in any order and a start date not after its last
\* date, when the earliest point at or after the start date has a positive
\* price, processData returns a result whose first emitted point has value
\* exactly 100.
C7_FirstPointIsHundred ==
    (NCalled /\ NHasPrices /\ NQualifying # {} /\ NPrices[NFirst].price > 0)
        => /\ nResult # Null
           /\ Len(nResult.series) >= 1
           /\ nResult.series[1].value = Hundred

C7_Witness ==
    /\ NCalled /\ NHasPrices /\ NQualifying # {} /\ NInputUnsorted
    /\ NPrices[NFirst].price = MaxPrice
    /\ NFirst # 1
    /\ nResult # Null
    /\ nResult.series[1].value = Hundred

\* C8: processData returns null exactly when the series is missing or empty,
\* no point is at or after the start date, or the earliest such point has a
\* price <= 0; otherwise the result holds a non-empty series.
C8_AbsentExactlyWhen ==
    NCalled =>
        /\ (nResult = Null) <=>
              (\/ ~NHasPrices
               \/ NQualifying = {}
               \/ NPrices[NFirst].price <= 0)
        /\ nResult # Null => Len(nResult.series) >= 1

C8_Witness ==
    /\ NCalled /\ NHasPrices /\ NQualifying # {}
    /\ NPrices[NFirst].price < 0
    /\ \E i \in NQualifying : NPrices[i].price > 0
    /\ nResult = Null

\* C9: a present result holds one point per input point at or after the start
\* date, in ascending date order, none before the start date, point i valued
\* 100 * price_i / basePrice with basePrice the (positive) price of the first
\* emitted point, and finalValue is the value of the last emitted point.
C9_SeriesShape ==
    (NCalled /\ nResult # Null) =>
        /\ Len(nResult.series) = Cardinality(NQualifying)
        /\ Len(nResult.series) >= 1
        /\ NPrices[NFirst].price > 0
        /\ \A i \in NQualifying :
              nResult.series[NRank(i)] =
                  [time  |-> NDay(i) * SecondsPerDay,
                   value |-> Rat(100 * NPrices[i].price, NPrices[NFirst].price)]
        /\ \A k \in 1..(Len(nResult.series) - 1) :
              nResult.series[k].time < nResult.series[k + 1].time
        /\ \A k \in DOMAIN nResult.series :
              TimeGeq([day |-> nResult.series[k].time \div SecondsPerDay, ms |-> 0],
                      nStartDate)
        /\ nResult.finalValue = nResult.series[Len(nResult.series)].value

C9_Witness ==
    /\ NCalled /\ nResult # Null /\ NInputUnsorted
    /\ Len(nResult.series) >= 2
    /\ Len(nResult.series) < Len(NPrices)
    /\ nResult.finalValue = [num |-> 150, den |-> 1]

----------------------------------------------------------------------------
(* Claims about getTimeframeStartDate, checked under SpecResolver *)

RCalled == rResult # NotCalled

\* C10: for every end date, the start date of option "all" is earlier than
\* 1900-01-01 (earlier than any realistic market data), with no one-day
\* adjustment.
C10_AllBefore1900 ==
    (RCalled /\ rOption = "all") => rResult.day < DaysFromCivil(1900, 1, 1)

\* the years a token stands for in C11: 1, 3 or 5, and 1 for a token that is
\* none of "1y", "3y", "5y", "all"
RYears == IF rOption = "3y" THEN 3 ELSE IF rOption = "5y" THEN 5 ELSE 1

REnd == CivilFromDays(rEndDate.day)

\* the end date moved back RYears calendar years, month and day kept, 29
\* February becoming 1 March in a year that is not a leap year
RYearsBack ==
    IF REnd[2] = 2 /\ REnd[3] = 29 /\ ~IsLeapYear(REnd[1] - RYears)
    THEN <<REnd[1] - RYears, 3, 1>>
    ELSE <<REnd[1] - RYears, REnd[2], REnd[3]>>

\* C11: for "1y", "3y", "5y" the start date is the end date moved back 1, 3 or
\* 5 calendar years (month and day kept, 29 February running over to 1 March
\* in a non-leap year) and then one more day, the time of day kept;
\* 2024-06-15 with "1y" gives 2023-06-14; a token outside the four options
\* gives what "1y" gives.
C11_YearsBackMinusOneDay ==
    (RCalled /\ rOption # "all") =>
        /\ rResult.day = DaysFromCivil(RYearsBack[1], RYearsBack[2], RYearsBack[3]) - 1
        /\ rResult.ms = rEndDate.ms
        /\ (REnd = <<2024, 6, 15>> /\ rOption = "1y")
              => CivilFromDays(rResult.day) = <<2023, 6, 14>>
        /\ rOption \notin ComparisonTimeframes
              => rResult = getTimeframeStartDate(rEndDate, "1y")

C11_Witness ==
    /\ RCalled
    /\ rOption = "3y"
    /\ REnd = <<2024, 2, 29>>
    /\ CivilFromDays(rResult.day) = <<2021, 2, 28>>

----------------------------------------------------------------------------
(* Claims about GET /api/stock, checked under SpecRoute *)

GCalled == gResponse # NotCalled

GHasSymbol == gSymbol # ""

\* what the provider threw, when it threw
GThrew == gChart.throws \/ gQuote.throws
GError == IF gChart.throws THEN gChart.error ELSE gQuote.error

\* the bars of the history that lack none of the five values
GCompleteBars ==
    IF gChart.throws \/ "quotes" \notin DOMAIN gChart.result THEN {}
    ELSE {i \in DOMAIN gChart.result.quotes :
            LET b == gChart.result.quotes[i]
            IN  /\ b.open # Null /\ b.high # Null /\ b.low # Null /\ b.close # Null}

\* C12 as stated: a request with a symbol gets a success with symbol, name and
\* at least one price point, or an error with the not-found status, or an
\* error with the generic failure status; a symbol without data never gets a
\* success status.
C12_NoDataNeverSucceeds ==
    (GCalled /\ GHasSymbol) =>
        \/ /\ gResponse.status = 200
           /\ DOMAIN gResponse.body = {"symbol", "name", "prices"}
           /\ Len(gResponse.body.prices) >= 1
        \/ /\ gResponse.status \in {404, 500}
           /\ DOMAIN gResponse.body = {"error"}

\* C12, amended: a request with a symbol gets status 200 exactly when neither
\* chart() nor quote() throws, and then the body holds the upper-cased symbol,
\* a name and one price point per bar that lacks none of its five values, in
\* order, so an empty or fully filtered-out history gives 200 with no price
\* point; when the provider throws, the body is {error} with status 404 or
\* 500: 404 only for an error whose message contains "No data found" or whose
\* code is "Not Found", always for an Error instance with that message, and
\* then with the "not found or no data available" message.
C12_EmptyHistorySucceeds ==
    (GCalled /\ GHasSymbol) =>
        /\ (gResponse.status = 200) <=> ~GThrew
        /\ gResponse.status = 200 =>
              /\ DOMAIN gResponse.body = {"symbol", "name", "prices"}
              /\ gResponse.body.symbol \in {"AAPL", "MSFT"}
              /\ gResponse.body.name # <<>>
              /\ Len(gResponse.body.prices) = Cardinality(GCompleteBars)
              /\ \A i \in GCompleteBars :
                    LET k == Cardinality({j \in GCompleteBars : j <= i})
                    IN  gResponse.body.prices[k].date =
                            CivilFromDays(gChart.result.quotes[i].date.day)
        /\ GThrew =>
              /\ gResponse.status \in {404, 500}
              /\ DOMAIN gResponse.body = {"error"}
              /\ gResponse.status = 404 =>
                    /\ "No data found" \in {GError.message[k] : k \in DOMAIN GError.message}
                          \/ GError.code = "Not Found"
                    /\ gResponse.body.error[3] = " not found or no data available"
              /\ (GError.kind = "Error" /\ GError.message[1] = "No data found")
                    => gResponse.status = 404

C12_Witness ==
    /\ GCalled /\ GHasSymbol /\ ~GThrew
    /\ "quotes" \in DOMAIN gChart.result
    /\ Len(gChart.result.quotes) = MaxBars
    /\ gResponse.status = 200
    /\ gResponse.body.prices = <<>>

----------------------------------------------------------------------------
(* Claims about the settled page and its loading indicator, checked under
   Spec *)

\* nothing is left to run: no timer is pending and no invocation is in flight,
\* so the state only changes with the next input change
Quiescent == timers = {} /\ inflight = <<>>

\* a timer or an invocation for the current input values is outstanding
CurrentOutstanding ==
    \/ timers # {}
    \/ \E i \in DOMAIN inflight : inflight[i].args = CurrentInputs

\* C13: once both tickers are non-empty and every timer and fetch has run to
\* its end, the page is Idle: loading is false, exactly one of comparisonData
\* and a non-empty error is recorded, and the input change was followed by one
\* invocation and no more.  A state without timer and invocation stays as it
\* is until the next input change, so a reachable state of this kind that is
\* not Idle refutes the liveness claim on a finite run.
C13_SettlesToIdle ==
    (InputComplete /\ Quiescent) =>
        /\ loading = FALSE
        /\ (comparisonData # Null) <=> (error = <<>>)
        /\ invocations = 1

\* C14: with both tickers non-empty, loading is true whenever a debounce timer
\* is pending or the invocation for the current input values is in flight (the
\* settling of a superseded invocation does not set it to false), and loading
\* is false whenever a ticker is empty and nothing is in flight.
C14_LoadingWhileOutstanding ==
    /\ (InputComplete /\ CurrentOutstanding) => loading = TRUE
    /\ (~InputComplete /\ inflight = <<>>) => loading = FALSE

\* C15: a non-empty error and a present comparisonData are never recorded at
\* the same time, whatever the interleaving of input changes, timer expiries
\* and fetch completions.
C15_ErrorExcludesResult ==
    ~(error # <<>> /\ comparisonData # Null)

====
